---------------------------- MODULE Spec2Model ----------------------------
(***************************************************************************)
(* gochronos: an in-process scheduler.  A TimeSpec says when an action     *)
(* runs (one-off or recurring); every ScheduledAction added to the         *)
(* schedule gets a goroutine that computes the next instant, waits on a    *)
(* timer or on a cancel command, runs the action and loops.                *)
(*                                                                         *)
(* Instants are whole seconds (naturals).  The zero time.Time, which the   *)
(* code uses for "no next execution" and for "endtime not set", lies       *)
(* before every instant of the model and is written ZeroTime.              *)
(***************************************************************************)
EXTENDS Integers, Sequences, FiniteSets, TLC

(***************************************************************************)
(* Bounds of the model.                                                    *)
(***************************************************************************)
MaxTime == 3        \* the clock of the scheduler runs over 0..MaxTime
MaxCount == 2       \* invocations counted per action
MaxInterval == 3    \* the intervals of the recurring specifications
MaxElapsed == 16    \* the clock of the timely runs covers 0..MaxElapsed
MaxPairTime == 2    \* the clock of the runs with two actions: 0..MaxPairTime

(***************************************************************************)
(* The FREQ_ constants.                                                    *)
(***************************************************************************)
FREQ_SECOND == 1
FREQ_MINUTE == 2
FREQ_HOUR == 3
FREQ_DAY == 4
FREQ_WEEK == 5
FREQ_MONTH == 6
FREQ_YEAR == 7

ZeroTime == -1

IsZero(x) == x = ZeroTime

(***************************************************************************)
(* 64-bit two's complement arithmetic, as Go's int64 and (on 64-bit        *)
(* targets) int.  A word is its 8 bytes, least significant first, so that  *)
(* no intermediate value leaves the range of the checker's integers.       *)
(***************************************************************************)
Bytes == 8

OneWord == [i \in 1..Bytes |-> IF i = 1 THEN 1 ELSE 0]

RECURSIVE MulFrom(_, _, _, _)
MulFrom(w, m, i, carry) ==
    IF i > Bytes THEN <<>>
    ELSE LET p == w[i] * m + carry
         IN  <<p % 256>> \o MulFrom(w, m, i + 1, p \div 256)

\* w * m, wrapped to 64 bits (0 <= m < 2^23)
MulWord(w, m) == MulFrom(w, m, 1, 0)

RECURSIVE ModFrom(_, _, _, _)
ModFrom(w, p, i, r) ==
    IF i = 0 THEN r ELSE ModFrom(w, p, i - 1, (r * 256 + w[i]) % p)

\* the unsigned value of w, modulo p (0 < p < 2^23)
ModWord(w, p) == ModFrom(w, p, Bytes, 0)

\* 2^64 modulo p
TwoTo64Mod(p) == ModFrom([i \in 1..Bytes |-> 0], p, Bytes, 1 % p)

IsNegative(w) == w[Bytes] >= 128

\* Go's w % p on a signed word: the remainder has the sign of the dividend
RemWord(w, p) ==
    IF IsNegative(w)
    THEN 0 - ((TwoTo64Mod(p) + p - ModWord(w, p)) % p)
    ELSE ModWord(w, p)

\* time.Second as a Duration: 10^9 nanoseconds
Million == 1000000

\* a Duration of s whole seconds, times time.Second: s * 10^9 * 10^9
DeltaTimesSecond(s) ==
    MulWord(MulWord(MulWord(MulWord(OneWord, Million), Million), Million), s)

(***************************************************************************)
(* TimeSpec and GetNextExec.                                               *)
(***************************************************************************)
NewOneOff(w) ==
    [recurring |-> FALSE, when |-> w, startTime |-> ZeroTime,
     endTime |-> ZeroTime, frequency |-> 0, interval |-> 0]

MkRecurring(start, end, freq, k) ==
    [recurring |-> TRUE, when |-> ZeroTime, startTime |-> start,
     endTime |-> end, frequency |-> freq, interval |-> k]

\* the keys of NewRecurring's config that set a field GetNextExec reads, and
\* the value of a key, or the default of its field when the key is absent
ConfigKeys == {"starttime", "frequency", "interval", "endtime"}

ConfigValue(config, k, default) ==
    IF k \in DOMAIN config THEN config[k] ELSE default

Panic == [panic |-> TRUE]

\* NewRecurring(config): the specification, or Panic
NewRecurring(config) ==
    LET result ==
            [recurring |-> TRUE, when |-> ZeroTime,
             startTime |-> ConfigValue(config, "starttime", ZeroTime),
             endTime   |-> ConfigValue(config, "endtime", ZeroTime),
             frequency |-> ConfigValue(config, "frequency", -1),
             interval  |-> ConfigValue(config, "interval", 1)]
    IN  IF IsZero(result.startTime) THEN Panic
        ELSE IF result.frequency < FREQ_SECOND \/ result.frequency > FREQ_YEAR
             THEN Panic
        ELSE result

\* the period in seconds of a frequency, 0 for month and year
BasePeriod(freq) ==
    CASE freq = FREQ_SECOND -> 1
      [] freq = FREQ_MINUTE -> 60
      [] freq = FREQ_HOUR   -> 3600
      [] freq = FREQ_DAY    -> 86400
      [] freq = FREQ_WEEK   -> 604800
      [] OTHER              -> 0

\* td := int(delta*time.Second) % period
Td(ts, clock, period) == RemWord(DeltaTimesSecond(clock - ts.startTime), period)

RecurringNext(ts, clock) ==
    LET base == BasePeriod(ts.frequency)
    IN  IF base > 0
        THEN LET period == base * ts.interval
                 prev   == clock - Td(ts, clock, period)
             IN  prev + period
        ELSE ZeroTime

\* !t.endTime.IsZero() && t.endTime.Before(now)
EndReached(ts, clock) == ~IsZero(ts.endTime) /\ ts.endTime < clock

\* the comparison turned round: After where the code has Before
OneOffAfter(ts, clock) == ts.when > clock

\* t.when.Before(now)
OneOffPast(ts, clock) == ts.when < clock

GetNextExec(ts, clock) ==
    IF ts.recurring
    THEN IF EndReached(ts, clock) THEN ZeroTime
         ELSE IF ts.startTime > clock THEN ts.startTime
         ELSE RecurringNext(ts, clock)
    ELSE IF OneOffPast(ts, clock) THEN ZeroTime ELSE ts.when

(***************************************************************************)
(* The scheduler.                                                          *)
(*                                                                         *)
(* Actions are the ScheduledAction values of a run, Clients the goroutines *)
(* of the application that call Remove.  A callback runs on the goroutine  *)
(* of its action, so an action is a calling context too.                   *)
(***************************************************************************)
Actions == {"a1", "a2"}
Clients == {"c1", "c2"}
Contexts == Clients \cup Actions

\* the parameter lists handed to Add
ParamVals == {<<"test", 5>>, <<>>}

\* the callbacks of the application; Add is called with the first
Callbacks == {"f", "g"}
AddCallbacks == {"f"}

NoParams == <<"none">>
NoAction == "nil"
NoTimer == -1
Free == [op |-> "free", sa |-> "none"]

VARIABLES
    now,            \* time.Now(), in whole seconds
    When,           \* sa.When
    Parameters,     \* sa.Parameters
    Action,         \* sa.Action
    cmdChan,        \* sa.cmdChan: "nil" or "open" (an unbuffered channel)
    senders,        \* the contexts blocked in sc.cmdChan <- CMD_CANCEL
    pc,             \* where each action's AddToSchedule and goroutine stand
    t,              \* the goroutine's t, the next instant
    timer,          \* the instant the goroutine's timer is due, or NoTimer
    count,          \* invocations of the callback, counted up to MaxCount
    lastAt,         \* the instant of the last invocation
    lastArgs,       \* the arguments of the last invocation
    lastAction,     \* the callback of the last invocation
    schedule,       \* the schedule map's keys
    scheduleLock,   \* who holds scheduleLock
    addedAt,        \* the instant Add was called
    stopAt,         \* the instant Remove was first called
    seen            \* what the goroutine has read: When at its last
                    \* GetNextExec, Action and Parameters as they were when
                    \* it last armed its timer

vars == <<now, When, Parameters, Action, cmdChan, senders, pc, t, timer,
          count, lastAt, lastArgs, lastAction, schedule, scheduleLock,
          addedAt, stopAt, seen>>

NoSpec == NewOneOff(ZeroTime)

NothingSeen == [When |-> NoSpec, Action |-> NoAction, Parameters |-> NoParams]

Max(x, y) == IF x > y THEN x ELSE y
Min(x, y) == IF x < y THEN x ELSE y

\* the time specifications the application builds
OneOffSpecs == {NewOneOff(w) : w \in 0..MaxTime}

RecurringSpecs ==
    {MkRecurring(s, e, f, k) :
        s \in 0..1, e \in {ZeroTime} \cup 0..MaxTime,
        f \in {FREQ_SECOND, FREQ_MINUTE, FREQ_MONTH}, k \in 1..2}

TimeSpecs == OneOffSpecs \cup RecurringSpecs

\* a context blocked sending on some action's command channel
Blocked(x) == \E a \in Actions : x \in senders[a]

Init ==
    /\ now = 0
    /\ When = [a \in Actions |-> NoSpec]
    /\ Parameters = [a \in Actions |-> NoParams]
    /\ Action = [a \in Actions |-> NoAction]
    /\ cmdChan = [a \in Actions |-> "nil"]
    /\ senders = [a \in Actions |-> {}]
    /\ pc = [a \in Actions |-> "idle"]
    /\ t = [a \in Actions |-> ZeroTime]
    /\ timer = [a \in Actions |-> NoTimer]
    /\ count = [a \in Actions |-> 0]
    /\ lastAt = [a \in Actions |-> ZeroTime]
    /\ lastArgs = [a \in Actions |-> NoParams]
    /\ lastAction = [a \in Actions |-> NoAction]
    /\ schedule = {}
    /\ scheduleLock = Free
    /\ addedAt = [a \in Actions |-> ZeroTime]
    /\ stopAt = [a \in Actions |-> ZeroTime]
    /\ seen = [a \in Actions |-> NothingSeen]

\* time passes
Tick ==
    /\ now < MaxTime
    /\ now' = now + 1
    /\ UNCHANGED <<When, Parameters, Action, cmdChan, senders, pc, t, timer,
                   count, lastAt, lastArgs, lastAction, schedule,
                   scheduleLock, addedAt, stopAt, seen>>

\* Add: NewScheduledAction, then AddToSchedule up to scheduleLock.Lock()
AddLock(a, ts, f, args) ==
    /\ pc[a] = "idle"
    /\ scheduleLock = Free
    /\ When' = [When EXCEPT ![a] = ts]
    /\ Parameters' = [Parameters EXCEPT ![a] = args]
    /\ Action' = [Action EXCEPT ![a] = f]
    /\ addedAt' = [addedAt EXCEPT ![a] = now]
    /\ scheduleLock' = [op |-> "add", sa |-> a]
    /\ pc' = [pc EXCEPT ![a] = "insert"]
    /\ UNCHANGED <<now, cmdChan, senders, t, timer, count, lastAt, lastArgs,
                   lastAction, schedule, stopAt, seen>>

\* AddToSchedule without its Unlock
AddInsertNoUnlock(a) ==
    /\ pc[a] = "insert"
    /\ schedule' = schedule \cup {a}
    /\ pc' = [pc EXCEPT ![a] = "start"]
    /\ UNCHANGED <<now, When, Parameters, Action, cmdChan, senders, t,
                   timer, count, lastAt, lastArgs, lastAction, scheduleLock,
                   addedAt, stopAt, seen>>

\* AddToSchedule: schedule[sa] = true; scheduleLock.Unlock()
AddInsert(a) ==
    /\ pc[a] = "insert"
    /\ schedule' = schedule \cup {a}
    /\ scheduleLock' = Free
    /\ pc' = [pc EXCEPT ![a] = "start"]
    /\ UNCHANGED <<now, When, Parameters, Action, cmdChan, senders, t,
                   timer, count, lastAt, lastArgs, lastAction, addedAt,
                   stopAt, seen>>

\* startTimer: make the command channel and start the goroutine
StartTimer(a) ==
    /\ pc[a] = "start"
    /\ cmdChan' = [cmdChan EXCEPT ![a] = "open"]
    /\ pc' = [pc EXCEPT ![a] = "query"]
    /\ UNCHANGED <<now, When, Parameters, Action, senders, t, timer, count,
                   lastAt, lastArgs, lastAction, schedule, scheduleLock,
                   addedAt, stopAt, seen>>

\* the goroutine: t := sc.When.GetNextExec(), and the loop's test !t.IsZero()
Query(a) ==
    /\ pc[a] = "query"
    /\ t' = [t EXCEPT ![a] = GetNextExec(When[a], now)]
    /\ pc' = [pc EXCEPT ![a] = IF IsZero(t'[a]) THEN "remove" ELSE "arm"]
    /\ seen' = [seen EXCEPT ![a].When = When[a]]
    /\ UNCHANGED <<now, When, Parameters, Action, cmdChan, senders, timer,
                   count, lastAt, lastArgs, lastAction, schedule,
                   scheduleLock, addedAt, stopAt>>

\* the wait dropped: the timer is armed for no time at all
WaitNone(a) == 0

\* d := t.Sub(time.Now()), not below 0
WaitFor(a) == Max(0, t[a] - now)

\* the callback started on a goroutine of its own: go sc.Action(...)
InvokeAsync(a) ==
    /\ pc' = [pc EXCEPT ![a] = "query"]
    /\ timer' = [timer EXCEPT ![a] = NoTimer]
    /\ count' = [count EXCEPT ![a] = Min(count[a] + 1, MaxCount)]
    /\ lastAt' = [lastAt EXCEPT ![a] = now]
    /\ lastArgs' = [lastArgs EXCEPT ![a] = Parameters[a]]
    /\ lastAction' = [lastAction EXCEPT ![a] = Action[a]]

\* case <-timer.C: sc.Action(sc.Parameters...)
Invoke(a) ==
    /\ pc' = [pc EXCEPT ![a] = "firing"]
    /\ timer' = [timer EXCEPT ![a] = NoTimer]
    /\ count' = [count EXCEPT ![a] = Min(count[a] + 1, MaxCount)]
    /\ lastAt' = [lastAt EXCEPT ![a] = now]
    /\ lastArgs' = [lastArgs EXCEPT ![a] = Parameters[a]]
    /\ lastAction' = [lastAction EXCEPT ![a] = Action[a]]

\* case cmd := <-sc.cmdChan with CMD_CANCEL: timer.Stop(); break loop
Cancelled(a) ==
    /\ pc' = [pc EXCEPT ![a] = "remove"]
    /\ timer' = [timer EXCEPT ![a] = NoTimer]

\* timer = time.NewTimer(d), or timer.Reset(d)
Arm(a) ==
    seen' = [seen EXCEPT ![a].Action = Action[a],
                         ![a].Parameters = Parameters[a]]

\* the timer is armed and the select finds nothing ready to receive from the
\* command channel: the goroutine waits
ArmWait(a) ==
    /\ pc[a] = "arm"
    /\ senders[a] = {}
    /\ Arm(a)
    /\ timer' = [timer EXCEPT ![a] = now + WaitFor(a)]
    /\ pc' = [pc EXCEPT ![a] = "select"]
    /\ UNCHANGED <<now, When, Parameters, Action, cmdChan, senders, t,
                   count, lastAt, lastArgs, lastAction, schedule,
                   scheduleLock, addedAt, stopAt>>

\* the timer is armed and the select finds a sender waiting on the command
\* channel: it may take the command
ArmCancel(a) ==
    /\ pc[a] = "arm"
    /\ \E c \in senders[a] : senders' = [senders EXCEPT ![a] = @ \ {c}]
    /\ Arm(a)
    /\ Cancelled(a)
    /\ UNCHANGED <<now, When, Parameters, Action, cmdChan, t, count, lastAt,
                   lastArgs, lastAction, schedule, scheduleLock, addedAt,
                   stopAt>>

\* the timer is armed for d = 0 and a sender waits on the command channel:
\* both cases of the select can proceed and it may take the timer's
ArmFire(a) ==
    /\ pc[a] = "arm"
    /\ senders[a] # {}
    /\ WaitFor(a) = 0
    /\ Arm(a)
    /\ Invoke(a)
    /\ UNCHANGED <<now, When, Parameters, Action, cmdChan, senders, t,
                   schedule, scheduleLock, addedAt, stopAt>>

\* the waiting select receives from timer.C
SelectTimer(a) ==
    /\ pc[a] = "select"
    /\ timer[a] # NoTimer
    /\ timer[a] <= now
    /\ Invoke(a)
    /\ UNCHANGED <<now, When, Parameters, Action, cmdChan, senders, t,
                   schedule, scheduleLock, addedAt, stopAt, seen>>

\* the callback returns: t = sc.When.GetNextExec() comes next
Return(a) ==
    /\ pc[a] = "firing"
    /\ ~Blocked(a)
    /\ pc' = [pc EXCEPT ![a] = "query"]
    /\ UNCHANGED <<now, When, Parameters, Action, cmdChan, senders, t,
                   timer, count, lastAt, lastArgs, lastAction, schedule,
                   scheduleLock, addedAt, stopAt, seen>>

\* stopTimer: sc.cmdChan <- CMD_CANCEL, by context x.  The send completes at
\* once when the goroutine waits in its select; otherwise x blocks.
StopTimer(x, a) ==
    /\ cmdChan[a] = "open"
    /\ stopAt' = [stopAt EXCEPT ![a] = IF IsZero(@) THEN now ELSE @]
    /\ IF pc[a] = "select"
       THEN /\ Cancelled(a)
            /\ UNCHANGED senders
       ELSE /\ senders' = [senders EXCEPT ![a] = @ \cup {x}]
            /\ UNCHANGED <<pc, timer>>
    /\ UNCHANGED <<now, When, Parameters, Action, cmdChan, t, count, lastAt,
                   lastArgs, lastAction, schedule, scheduleLock, addedAt,
                   seen>>

\* Remove(sa), called by a goroutine of the application
Remove(c, a) ==
    /\ ~Blocked(c)
    /\ StopTimer(c, a)

\* Remove(sa), called from inside the callback of action x
CallbackRemove(x, a) ==
    /\ pc[x] = "firing"
    /\ ~Blocked(x)
    /\ StopTimer(x, a)

\* remove: scheduleLock.Lock()
RemoveLock(a) ==
    /\ pc[a] = "remove"
    /\ scheduleLock = Free
    /\ scheduleLock' = [op |-> "remove", sa |-> a]
    /\ pc' = [pc EXCEPT ![a] = "delete"]
    /\ UNCHANGED <<now, When, Parameters, Action, cmdChan, senders, t,
                   timer, count, lastAt, lastArgs, lastAction, schedule,
                   addedAt, stopAt, seen>>

\* remove: delete(schedule, sa); scheduleLock.Unlock(); the goroutine ends
RemoveDelete(a) ==
    /\ pc[a] = "delete"
    /\ schedule' = schedule \ {a}
    /\ scheduleLock' = Free
    /\ pc' = [pc EXCEPT ![a] = "done"]
    /\ UNCHANGED <<now, When, Parameters, Action, cmdChan, senders, t,
                   timer, count, lastAt, lastArgs, lastAction, addedAt,
                   stopAt, seen>>

\* ClearAll that does what its @todo asks for: the waiting goroutines are
\* terminated
ClearAllStops ==
    /\ schedule' = {}
    /\ pc' = [a \in Actions |-> IF pc[a] = "select" THEN "remove" ELSE pc[a]]
    /\ timer' = [a \in Actions |-> IF pc[a] = "select" THEN NoTimer ELSE timer[a]]
    /\ UNCHANGED <<now, When, Parameters, Action, cmdChan, senders, t, count,
                   lastAt, lastArgs, lastAction, scheduleLock, addedAt,
                   stopAt, seen>>

\* ClearAll: schedule = make(map[*ScheduledAction]bool), without the lock
ClearAll ==
    /\ schedule' = {}
    /\ UNCHANGED <<now, When, Parameters, Action, cmdChan, senders, pc, t,
                   timer, count, lastAt, lastArgs, lastAction, scheduleLock,
                   addedAt, stopAt, seen>>

\* Add has returned: the application holds the action
Held(a) == cmdChan[a] = "open"

\* SetTimeSpec that does what its @todo asks for: a waiting goroutine
\* evaluates the new specification and arms its timer again
SetTimeSpecRearm(a, ts) ==
    /\ Held(a)
    /\ When' = [When EXCEPT ![a] = ts]
    /\ IF pc[a] = "select"
       THEN /\ t' = [t EXCEPT ![a] = GetNextExec(ts, now)]
            /\ timer' = [timer EXCEPT ![a] = Max(now, t'[a])]
       ELSE UNCHANGED <<t, timer>>
    /\ UNCHANGED <<now, Parameters, Action, cmdChan, senders, pc, count,
                   lastAt, lastArgs, lastAction, schedule, scheduleLock,
                   addedAt, stopAt, seen>>

\* sa.When = ts
SetTimeSpec(a, ts) ==
    /\ Held(a)
    /\ When' = [When EXCEPT ![a] = ts]
    /\ UNCHANGED <<now, Parameters, Action, cmdChan, senders, pc, t, timer,
                   count, lastAt, lastArgs, lastAction, schedule,
                   scheduleLock, addedAt, stopAt, seen>>

\* sa.Action = f
SetAction(a, f) ==
    /\ Held(a)
    /\ Action' = [Action EXCEPT ![a] = f]
    /\ UNCHANGED <<now, When, Parameters, cmdChan, senders, pc, t, timer,
                   count, lastAt, lastArgs, lastAction, schedule,
                   scheduleLock, addedAt, stopAt, seen>>

\* sa.Parameters = args
SetParams(a, args) ==
    /\ Held(a)
    /\ Parameters' = [Parameters EXCEPT ![a] = args]
    /\ UNCHANGED <<now, When, Action, cmdChan, senders, pc, t, timer, count,
                   lastAt, lastArgs, lastAction, schedule, scheduleLock,
                   addedAt, stopAt, seen>>

\* the steps of action a's goroutine
TaskStep(a) ==
    \/ Query(a)
    \/ ArmWait(a)
    \/ ArmCancel(a)
    \/ ArmFire(a)
    \/ SelectTimer(a)
    \/ Return(a)
    \/ RemoveLock(a)
    \/ RemoveDelete(a)

(***************************************************************************)
(* Spec: one action, added once with any time specification, under any     *)
(* interleaving of its goroutine with the clock, with Remove called by the *)
(* application's goroutines and from inside the callback, and ClearAll.    *)
(***************************************************************************)
Solo == {"a1"}

Next ==
    \/ Tick
    \/ \E a \in Solo, ts \in TimeSpecs, f \in AddCallbacks, args \in ParamVals :
          AddLock(a, ts, f, args)
    \/ \E a \in Solo : AddInsert(a)
    \/ \E a \in Solo : StartTimer(a)
    \/ \E a \in Solo : TaskStep(a)
    \/ \E c \in Clients, a \in Solo : Remove(c, a)
    \/ \E x \in Solo, a \in Solo : CallbackRemove(x, a)
    \/ ClearAll

Spec == Init /\ [][Next]_vars

(***************************************************************************)
(* SpecTimely: a recurring action that is never cancelled, on a machine    *)
(* that is not loaded: the goroutine and the callback take no measurable   *)
(* time, so the clock advances only when the goroutine waits for a timer   *)
(* that is not due yet.                                                    *)
(***************************************************************************)
TimelySpecs ==
    {MkRecurring(s, e, FREQ_SECOND, k) :
        s \in 0..2, e \in {ZeroTime} \cup 1..4, k \in 1..MaxInterval}

Busy(a) ==
    \/ pc[a] \in {"insert", "start", "query", "arm", "firing", "remove", "delete"}
    \/ pc[a] = "select" /\ timer[a] <= now

TimelyTick ==
    /\ now < MaxElapsed
    /\ \A a \in Actions : ~Busy(a)
    /\ now' = now + 1
    /\ UNCHANGED <<When, Parameters, Action, cmdChan, senders, pc, t, timer,
                   count, lastAt, lastArgs, lastAction, schedule,
                   scheduleLock, addedAt, stopAt, seen>>

NextTimely ==
    \/ TimelyTick
    \/ \E a \in Solo, ts \in TimelySpecs, f \in AddCallbacks, args \in ParamVals :
          AddLock(a, ts, f, args)
    \/ \E a \in Solo : AddInsert(a)
    \/ \E a \in Solo : StartTimer(a)
    \/ \E a \in Solo : Query(a)
    \/ \E a \in Solo : ArmWait(a)
    \/ \E a \in Solo : SelectTimer(a)
    \/ \E a \in Solo : Return(a)
    \/ \E a \in Solo : RemoveLock(a)
    \/ \E a \in Solo : RemoveDelete(a)

SpecTimely == Init /\ [][NextTimely]_vars

(***************************************************************************)
(* SpecNextExec: GetNextExec as a function of the specification and of the *)
(* clock.  The goroutine of a1 has just started, with any specification,   *)
(* at any reading of the clock, and evaluates GetNextExec.                 *)
(***************************************************************************)
LateInstants == {59, 60, 61, 119, 120, 3600, 3601, 86460, 604800, 1209601}

Instants == 0..MaxElapsed \cup LateInstants

NextExecSpecs ==
    {NewOneOff(w) : w \in 0..MaxElapsed}
    \cup {MkRecurring(s, e, f, k) :
            s \in 0..2, e \in {ZeroTime, 1, 4, 60}, f \in FREQ_SECOND..FREQ_YEAR,
            k \in 1..MaxInterval}

InitNextExec ==
    \E ts \in NextExecSpecs, f \in AddCallbacks, args \in ParamVals :
        /\ now \in Instants
        /\ When = [a \in Actions |-> IF a \in Solo THEN ts ELSE NoSpec]
        /\ Parameters = [a \in Actions |-> IF a \in Solo THEN args ELSE NoParams]
        /\ Action = [a \in Actions |-> IF a \in Solo THEN f ELSE NoAction]
        /\ cmdChan = [a \in Actions |-> IF a \in Solo THEN "open" ELSE "nil"]
        /\ senders = [a \in Actions |-> {}]
        /\ pc = [a \in Actions |-> IF a \in Solo THEN "query" ELSE "idle"]
        /\ t = [a \in Actions |-> ZeroTime]
        /\ timer = [a \in Actions |-> NoTimer]
        /\ count = [a \in Actions |-> 0]
        /\ lastAt = [a \in Actions |-> ZeroTime]
        /\ lastArgs = [a \in Actions |-> NoParams]
        /\ lastAction = [a \in Actions |-> NoAction]
        /\ schedule = Solo
        /\ scheduleLock = Free
        /\ addedAt = [a \in Actions |-> IF a \in Solo THEN now ELSE ZeroTime]
        /\ stopAt = [a \in Actions |-> ZeroTime]
        /\ seen = [a \in Actions |-> NothingSeen]

NextNextExec == \E a \in Solo : Query(a)

SpecNextExec == InitNextExec /\ [][NextNextExec]_vars

(***************************************************************************)
(* SpecMutate: one action, never cancelled, whose time specification,      *)
(* callback and parameters the application replaces at any moment after    *)
(* Add has returned, under any interleaving with the goroutine and the     *)
(* clock.                                                                  *)
(***************************************************************************)
MutateSpecs ==
    {NewOneOff(w) : w \in 1..MaxTime}
    \cup {MkRecurring(0, ZeroTime, FREQ_SECOND, k) : k \in 1..2}

NextMutate ==
    \/ Tick
    \/ \E a \in Solo, ts \in MutateSpecs, f \in AddCallbacks, args \in ParamVals :
          AddLock(a, ts, f, args)
    \/ \E a \in Solo : AddInsert(a)
    \/ \E a \in Solo : StartTimer(a)
    \/ \E a \in Solo : Query(a)
    \/ \E a \in Solo : ArmWait(a)
    \/ \E a \in Solo : SelectTimer(a)
    \/ \E a \in Solo : Return(a)
    \/ \E a \in Solo : RemoveLock(a)
    \/ \E a \in Solo : RemoveDelete(a)
    \/ \E a \in Solo, ts \in MutateSpecs : SetTimeSpec(a, ts)
    \/ \E a \in Solo, f \in Callbacks : SetAction(a, f)
    \/ \E a \in Solo, args \in ParamVals : SetParams(a, args)

SpecMutate == Init /\ [][NextMutate]_vars

(***************************************************************************)
(* SpecNewRecurring: the application calls NewRecurring with any config    *)
(* and, when it returns, adds an action with the specification it got.  A  *)
(* panic of NewRecurring ends the program.                                 *)
(***************************************************************************)
ValuesOf(k) ==
    CASE k = "starttime" -> {ZeroTime, 0, 1}
      [] k = "frequency" -> (FREQ_SECOND - 2)..(FREQ_YEAR + 1)
      [] k = "interval"  -> -1..2
      [] k = "endtime"   -> {ZeroTime, 2}

Configs ==
    UNION {{c \in [K -> Int \cap (-1..(FREQ_YEAR + 1))] :
                \A k \in K : c[k] \in ValuesOf(k)} : K \in SUBSET ConfigKeys}

AddRecurring(a, config, f, args) ==
    /\ NewRecurring(config) # Panic
    /\ AddLock(a, NewRecurring(config), f, args)

NewRecurringPanics(config) ==
    /\ NewRecurring(config) = Panic
    /\ \A a \in Actions : pc[a] = "idle"
    /\ pc' = [a \in Actions |-> "panic"]
    /\ UNCHANGED <<now, When, Parameters, Action, cmdChan, senders, t, timer,
                   count, lastAt, lastArgs, lastAction, schedule,
                   scheduleLock, addedAt, stopAt, seen>>

NextNewRecurring ==
    \/ \E a \in Solo, config \in Configs, f \in AddCallbacks, args \in ParamVals :
          AddRecurring(a, config, f, args)
    \/ \E config \in Configs : NewRecurringPanics(config)
    \/ \E a \in Solo : AddInsert(a)
    \/ \E a \in Solo : StartTimer(a)

SpecNewRecurring == Init /\ [][NextNewRecurring]_vars

(***************************************************************************)
(* SpecPair: two actions, each added at most once, under any interleaving  *)
(* of Add, Remove, ClearAll, the two goroutines and the clock.  A callback *)
(* may take any time, or never return.                                     *)
(***************************************************************************)
PairSpecs == {NewOneOff(MaxPairTime), MkRecurring(0, ZeroTime, FREQ_SECOND, 1)}

PairParams == {<<>>}

PairClients == {"c1"}

PairTick ==
    /\ now < MaxPairTime
    /\ Tick

NextPair ==
    \/ PairTick
    \/ \E a \in Actions, ts \in PairSpecs, f \in AddCallbacks, args \in PairParams :
          AddLock(a, ts, f, args)
    \/ \E a \in Actions : AddInsert(a)
    \/ \E a \in Actions : StartTimer(a)
    \/ \E a \in Actions : TaskStep(a)
    \/ \E c \in PairClients, a \in Actions : Remove(c, a)
    \/ ClearAll

SpecPair == Init /\ [][NextPair]_vars

(***************************************************************************)
(* The properties.                                                         *)
(***************************************************************************)
Added(a) == pc[a] # "idle"

IsOneOff(a) == Added(a) /\ ~When[a].recurring

IsRecurring(a) == Added(a) /\ When[a].recurring

\* C1: a one-off action added with when strictly after the instant of Add
\* and never cancelled has its callback invoked at most once, not before
\* when, with the parameters passed to Add, and once it has been invoked its
\* goroutine arms no further timer.  (That the callback is invoked at all
\* needs time to pass and is not part of this formula.)
C1_OneOffFiresOnce ==
    \A a \in Actions :
        (IsOneOff(a) /\ When[a].when > addedAt[a] /\ IsZero(stopAt[a])) =>
            /\ count[a] <= 1
            /\ count[a] = 1 =>
                /\ lastAt[a] >= When[a].when
                /\ lastArgs[a] = Parameters[a]
                /\ pc[a] \in {"firing", "query", "remove", "delete", "done"}
            /\ pc[a] = "done" => a \notin schedule

\* C2: when Remove is called on a one-off action before its when is
\* reached, the callback is never invoked.
C2_CancelledOneOffNeverFires ==
    \A a \in Actions :
        (IsOneOff(a) /\ ~IsZero(stopAt[a]) /\ stopAt[a] < When[a].when) =>
            count[a] = 0

\* C3: a call of Remove on an action whose goroutine has been cancelled
\* already, or has ended because its specification is exhausted, returns: no
\* context stays blocked in stopTimer on an action whose goroutine has left
\* its loop.
C3_RemoveAfterEndReturns ==
    \A a \in Actions :
        pc[a] \in {"remove", "delete", "done"} => senders[a] = {}

\* C4: Remove returns without waiting for the goroutine of the action,
\* whether that goroutine waits in its select or runs the callback: a call
\* made in either state leaves no context blocked in stopTimer.
C4_RemoveDoesNotWait ==
    [][\A a \in Actions :
          pc[a] \in {"select", "firing"} => senders'[a] \subseteq senders[a]]_vars

\* C5: once Remove has been called on an action, its goroutine starts no
\* callback at its next wait step: a goroutine that reaches its select with
\* a cancel command waiting for it does not take the timer's case.
C5_NoFiringOnceCancelled ==
    [][\A a \in Actions :
          (pc[a] = "arm" /\ senders[a] # {}) => pc'[a] # "firing"]_vars

\* the smallest instant start + n*period, n >= 1, strictly after clock
OnProgression(ts, clock) ==
    LET period == BasePeriod(ts.frequency) * ts.interval
    IN  ts.startTime + (((clock - ts.startTime) \div period) + 1) * period

\* C6: for a recurring specification with a frequency of second, minute,
\* hour, day or week, a startTime at or before now and an endTime not
\* reached, GetNextExec returns the smallest instant startTime + n*period,
\* n >= 1, that is strictly after now.
C6_NextIsOnProgression ==
    \A a \in Solo :
        (/\ pc[a] \in {"arm", "remove"}
         /\ When[a].recurring
         /\ BasePeriod(When[a].frequency) > 0
         /\ When[a].startTime <= now
         /\ (IsZero(When[a].endTime) \/ When[a].endTime > now)) =>
            t[a] = OnProgression(When[a], now)

\* C7: a recurring action with an endTime never has its callback invoked at
\* an instant at or after endTime.
C7_NoFiringFromEndTime ==
    \A a \in Actions :
        (IsRecurring(a) /\ ~IsZero(When[a].endTime) /\ count[a] > 0) =>
            lastAt[a] < When[a].endTime

\* C8: a recurring action with frequency second and interval k, whose
\* startTime is the instant of Add and which has no endTime, fires every k
\* seconds: its first invocation is k seconds after Add and each further
\* one exactly k seconds after the one before.
C8_FiresEveryKSeconds ==
    [][\A a \in Actions :
          (/\ IsRecurring(a)
           /\ When[a].frequency = FREQ_SECOND
           /\ When[a].startTime = addedAt[a]
           /\ IsZero(When[a].endTime)
           /\ pc[a] = "select" /\ pc'[a] = "firing") =>
              now = (IF count[a] = 0 THEN addedAt[a] ELSE lastAt[a])
                        + When[a].interval]_vars

\* C9: for a one-off specification GetNextExec returns the zero time when
\* when is at or before now, and when otherwise.
C9_OneOffNoneAtOrBeforeNow ==
    \A a \in Solo :
        (pc[a] \in {"arm", "remove"} /\ ~When[a].recurring) =>
            t[a] = (IF When[a].when <= now THEN ZeroTime ELSE When[a].when)

\* the specification yields no instant at the time of Add
PastAtAdd(a) ==
    /\ Added(a)
    /\ IF When[a].recurring
       THEN ~IsZero(When[a].endTime) /\ When[a].endTime < addedAt[a]
       ELSE When[a].when < addedAt[a]

\* C10: an action whose specification yields no instant at the time of Add
\* (a one-off with when in the past, a recurring one with endTime in the
\* past) never has its callback invoked and never arms a timer: its
\* goroutine goes from its first query to remove, which it can always
\* complete, and once it is done the action is not in the schedule.
C10_PastSpecGoesToDone ==
    \A a \in Actions :
        PastAtAdd(a) =>
            /\ count[a] = 0
            /\ timer[a] = NoTimer
            /\ IsZero(t[a])
            /\ pc[a] \in {"insert", "start", "query", "remove", "delete", "done"}
            /\ pc[a] \in {"query", "remove", "delete"} => ENABLED TaskStep(a)
            /\ pc[a] = "done" => a \notin schedule

C10_Witness ==
    \E a \in Actions :
        /\ PastAtAdd(a)
        /\ When[a].recurring
        /\ pc[a] = "done"
        /\ a \notin schedule
        /\ count[a] = 0

\* the action is recurring, its startTime lies strictly after the instant of
\* Add and its endTime, if any, was not reached at that instant
StartsAfterAdd(a) ==
    /\ IsRecurring(a)
    /\ When[a].startTime > addedAt[a]
    /\ ~EndReached(When[a], addedAt[a])

ComputedFrom(ts, instant) == \E q \in 0..now : instant = GetNextExec(ts, q)

C13_FiringUsesArmedCallback ==
    \A a \in Actions :
        pc[a] = "firing" =>
            /\ lastAction[a] = seen[a].Action
            /\ lastArgs[a] = seen[a].Parameters

\* C14: for a recurring specification with frequency month or year
\* GetNextExec returns the zero time at every reading of the clock, so the
\* goroutine of an action added with it never gets an instant, never arms a
\* timer, never invokes the callback, and once it is done the action is not
\* in the schedule.
C14_MonthYearYieldsNone ==
    \A a \in Actions :
        (IsRecurring(a) /\ When[a].frequency \in {FREQ_MONTH, FREQ_YEAR}) =>
            /\ IsZero(t[a])
            /\ pc[a] \notin {"arm", "select", "firing"}
            /\ count[a] = 0
            /\ pc[a] = "done" => a \notin schedule

\* C16: NewRecurring never returns an invalid specification: with a missing
\* or zero starttime, or a frequency missing or outside second..year, it
\* panics, and every specification it returns (here: every specification
\* of an action added with its result) has a startTime that is not zero, a
\* frequency in second..year and an interval of at least 1.
C16_NewRecurringValid ==
    \A a \in Actions :
        IsRecurring(a) =>
            /\ ~IsZero(When[a].startTime)
            /\ When[a].frequency \in FREQ_SECOND..FREQ_YEAR
            /\ When[a].interval >= 1

Active(a) ==
    pc[a] \in {"start", "query", "arm", "select", "firing", "remove", "delete"}

\* C17: in every reachable state an action is in the schedule if and only
\* if its goroutine is active.
C17_InScheduleIffActive ==
    \A a \in Actions : a \in schedule <=> Active(a)

\* C18: every change of the schedule (the insert of AddToSchedule, the
\* delete of remove, the replacement of ClearAll) is made by a context that
\* holds scheduleLock.
C18_ScheduleChangedUnderLock ==
    [][schedule' # schedule => scheduleLock # Free]_vars

\* C19: at most one invocation of an action's callback is in progress: an
\* invocation starts only from the goroutine's wait, never while one runs,
\* and the goroutine is then in the callback; while it is there it neither
\* computes a next instant nor arms a timer, its only step being the return
\* of the callback; and after a callback that returned at a later reading
\* of the clock than it started, the next instant is strictly after the one
\* just fired.
C19_OneInvocationAtATime ==
    [][\A a \in Actions :
          /\ (count'[a] # count[a] \/ lastAt'[a] # lastAt[a]) =>
                (pc[a] \in {"arm", "select"} /\ pc'[a] = "firing")
          /\ pc[a] = "firing" =>
                /\ pc'[a] \in {"firing", "query"}
                /\ t'[a] = t[a]
                /\ timer'[a] = NoTimer
                /\ count'[a] = count[a]
          /\ (pc[a] = "query" /\ count[a] > 0 /\ now > lastAt[a]
                /\ pc'[a] = "arm") => t'[a] > t[a]]_vars

\* after a callback that took a second or more the goroutine has the instant
\* of the following firing
C19_Witness ==
    \E a \in Actions :
        /\ pc[a] = "arm"
        /\ count[a] = 1
        /\ lastAt[a] < now
        /\ t[a] > lastAt[a]

\* C20: scheduleLock is held only by an AddToSchedule between its Lock and
\* its Unlock or by a remove between its Lock and its Unlock, steps that can
\* always complete, and never by an action whose goroutine waits or runs
\* the callback; while the callback of an action a runs, every other action
\* b can be added as soon as the lock is free, takes its timer when it is
\* due, takes a cancel command when it waits, and removes itself.
C20_LockOnlyForMembership ==
    /\ scheduleLock # Free =>
          /\ scheduleLock.op = "add" => pc[scheduleLock.sa] = "insert"
          /\ scheduleLock.op = "remove" => pc[scheduleLock.sa] = "delete"
          /\ ENABLED (AddInsert(scheduleLock.sa) \/ RemoveDelete(scheduleLock.sa))
    /\ \A a, b \in Actions :
          (a # b /\ pc[a] = "firing") =>
              /\ (pc[b] = "idle" /\ scheduleLock = Free) =>
                    \A ts \in PairSpecs : ENABLED AddLock(b, ts, "f", <<>>)
              /\ pc[b] = "insert" => ENABLED AddInsert(b)
              /\ pc[b] = "start" => ENABLED StartTimer(b)
              /\ (pc[b] = "select" /\ timer[b] <= now) => ENABLED SelectTimer(b)
              /\ pc[b] = "select" =>
                    \A c \in PairClients : ~Blocked(c) => ENABLED Remove(c, b)
              /\ (pc[b] = "remove" /\ scheduleLock = Free) => ENABLED RemoveLock(b)
              /\ pc[b] = "delete" => ENABLED RemoveDelete(b)

\* while the first callback of a runs and does not return, b is added, has
\* its callback invoked, is cancelled and removes itself
C20_Witness ==
    \E a, b \in Actions :
        /\ a # b
        /\ pc[a] = "firing"
        /\ count[a] = 1
        /\ addedAt[b] > lastAt[a]
        /\ count[b] > 0
        /\ ~IsZero(stopAt[b])
        /\ pc[b] = "done"

=============================================================================
